---- MODULE Spec2Model ----
(***************************************************************************)
(* The session controller of the cooking-coaching page (frontend/app/      *)
(* page.tsx, component Home): the phase state machine, the push-event      *)
(* handler of the /stream connection and the TTS playback manager.         *)
(*                                                                         *)
(* One action is one task of the browser's event loop: a user click, the   *)
(* arrival of a push frame, the completion of a fetch, the firing of a     *)
(* timer, the end of an audio clip.  Everything a handler does up to its   *)
(* next await is part of the action, and so are the effects React runs     *)
(* after the render that follows (RenderEffects).  What a handler keeps    *)
(* in its closure across an await (nextIdx, steps[nextIdx], stepsToUse)    *)
(* is kept in the record of the pending continuation in `tasks`.           *)
(***************************************************************************)
EXTENDS Integers, Sequences, FiniteSets, Bags, TLC

\* ------------------------------------------------------------------ bounds

\* Longest recipe the backend returns.
MaxSteps == 2
\* Continuations (pending fetches, the commit timer) and playing clips that
\* may exist at once; user clicks and frame arrivals wait for room.
MaxPending == 2
\* Longest payload string of a push frame, in tokens.
MaxTokens == 3
\* Recipes generated in one run of the page.
MaxRecipes == 1

\* ------------------------------------------------------------------ state

VARIABLES
    phase,                \* useState phase
    steps,                \* useState steps
    currentStep,          \* useState currentStep
    displayStep,          \* useState displayStep
    done,                 \* useState done
    animating,            \* useState animating
    stepCompleted,        \* useState stepCompleted
    stepCheckData,        \* useState stepCheckData (with the frame's step label)
    remySpeech,           \* useState remySpeech
    apiError,             \* useState apiError ("" is null)
    detectedAllergens,    \* useState detectedAllergens
    selectedAllergens,    \* useState selectedAllergens
    showCompletionOverlay,\* useState showCompletionOverlay
    eventSourceRef,       \* eventSourceRef.current: "null", "open" or "closed"
    orphanConns,          \* open connections eventSourceRef no longer holds
    currentStepLabelRef,  \* currentStepLabelRef.current
    audioRef,             \* audioRef.current: the clip it holds
    orphanClips,          \* playing clips audioRef no longer holds, by kind
    stepSpeakingRef,      \* stepSpeakingRef.current
    autoTimer,            \* the 1500 ms timer of the auto-advance effect is set
    tasks,                \* bag of pending continuations
    cameraHeld,           \* /camera/start succeeded and no /camera/stop was requested since
    recipes,              \* recipes generated so far
    inbox,                \* a push frame on the wire (frame-decoding runs only)
    mounted,              \* the page is mounted
    confirmedStep,        \* history: the index of the current step once a frame saying
                          \* it is completed was applied while it was current, else -1
    last                  \* the handler that ran last, and how it went

vars == << phase, steps, currentStep, displayStep, done, animating,
           stepCompleted, stepCheckData, remySpeech, apiError,
           detectedAllergens, selectedAllergens, showCompletionOverlay,
           eventSourceRef, orphanConns, currentStepLabelRef, audioRef,
           orphanClips, stepSpeakingRef, autoTimer, tasks, cameraHeld,
           recipes, inbox, mounted, confirmedStep, last >>

\* ---------------------------------------------------------------- recipes

StepLabels == << "s1", "s2", "s3", "s4" >>

\* /recipe/generate: a recipe of n steps.
Recipe(n) == [i \in 1..n |-> StepLabels[i]]

\* /recipe/generate-safe: the adapted recipe, its first step substituted.
SafeRecipe(n) == [i \in 1..n |-> IF i = 1 THEN "sub" ELSE StepLabels[i]]

RecipeSizes == 1..MaxSteps

Allergens == {"peanut"}

\* steps[i] ?? "" with the 0-based index of the code.
LabelAt(ss, i) == IF i + 1 \in 1..Len(ss) THEN ss[i + 1] ELSE ""

\* Outcome of a fetch: resolved with a success status, resolved with a
\* non-success status, rejected (network error).
FetchOutcomes == {"ok", "bad", "err"}

\* ------------------------------------------------------- JSON and strings

(***************************************************************************)
(* A string is a sequence of tokens.  FENCE is ```, JSON the language tag  *)
(* json, WS a run of whitespace, WORD a run of letters, NUM a number       *)
(* literal, ARR the text of an array, and OBJ_T, OBJ_F, OBJ_X the text of  *)
(* an object: with "completed": true, with "completed": false, and with    *)
(* none of the step-check keys.                                            *)
(***************************************************************************)
Tokens == {"FENCE", "JSON", "WS", "WORD", "NUM", "ARR",
           "OBJ_T", "OBJ_F", "OBJ_X"}

\* A JSON value: its typeof (with "array", "null" and "undefined" told
\* apart), its completed field and whether it has a step-check key; a
\* string keeps its tokens.
JV(t, c, k, s) == [t |-> t, c |-> c, k |-> k, s |-> s]

JObject(c, k) == JV("object", c, k, << >>)
JString(s)    == JV("string", "none", FALSE, s)
JNumber       == JV("number", "none", FALSE, << >>)
JArray        == JV("array", "none", FALSE, << >>)
JNull         == JV("null", "none", FALSE, << >>)
JUndefined    == JV("undefined", "none", FALSE, << >>)
\* JSON.parse threw.
JThrow        == JV("throw", "none", FALSE, << >>)

\* String.prototype.trim
RECURSIVE TrimStart(_)
TrimStart(s) ==
    IF s # << >> /\ Head(s) = "WS" THEN TrimStart(Tail(s)) ELSE s

RECURSIVE TrimEnd(_)
TrimEnd(s) ==
    IF s # << >> /\ s[Len(s)] = "WS"
        THEN TrimEnd(SubSeq(s, 1, Len(s) - 1))
        ELSE s

Trim(s) == TrimEnd(TrimStart(s))

\* text.startsWith("{"), text.startsWith("[") and text.startsWith("```")
StartsWithBrace(s)   == s # << >> /\ Head(s) \in {"OBJ_T", "OBJ_F", "OBJ_X"}
StartsWithBracket(s) == s # << >> /\ Head(s) = "ARR"
StartsWithFence(s)   == s # << >> /\ Head(s) = "FENCE"

\* data.replace(/^```(?:json)?\s*/i, ""): a leading fence, the tag after it
\* and the whitespace that follows.
StripOpenFence(s) ==
    IF ~StartsWithFence(s) THEN s
    ELSE LET r == Tail(s)
         IN  TrimStart(IF r # << >> /\ Head(r) = "JSON" THEN Tail(r) ELSE r)

\* .replace(/\s*```$/, ""): a trailing fence and the whitespace before it.
StripCloseFence(s) ==
    IF s # << >> /\ s[Len(s)] = "FENCE"
        THEN TrimEnd(SubSeq(s, 1, Len(s) - 1))
        ELSE s

StripFences(s) == Trim(StripCloseFence(StripOpenFence(s)))

\* JSON.parse: whitespace around the one value is skipped, anything else
\* throws.
JsonParse(s) ==
    LET v == Trim(s)
    IN  IF Len(v) # 1 THEN JThrow
        ELSE CASE v[1] = "OBJ_T" -> JObject("true", TRUE)
               [] v[1] = "OBJ_F" -> JObject("false", TRUE)
               [] v[1] = "OBJ_X" -> JObject("none", FALSE)
               [] v[1] = "ARR"   -> JArray
               [] v[1] = "NUM"   -> JNumber
               [] OTHER          -> JThrow

\* No check of the decoded payload.
IsObject_Any(v) == TRUE

\* data && typeof data === "object"
IsObject(v) == v.t \in {"object", "array"}

\* The string fallback of the step_check branch: a string payload is
\* stripped of its fences and parsed, null when that throws.
DecodeStepCheck(d) ==
    IF d.t # "string" THEN d
    ELSE LET p == JsonParse(StripFences(d.s))
         IN  IF p = JThrow THEN JNull ELSE p

\* The first guard without its "[" test.
LooksLikeJson_NoBracket(text) ==
    StartsWithBrace(text) \/ StartsWithFence(text)

\* The two JSON guards of the speech branch, on the trimmed text.
LooksLikeJson(text) ==
    StartsWithBrace(text) \/ StartsWithFence(text) \/ StartsWithBracket(text)

HasStepCheckKeys(text) ==
    LET parsed == JsonParse(text)
    IN  parsed # JThrow /\ IsObject(parsed) /\ parsed.k

\* ----------------------------------------------------------------- frames

(***************************************************************************)
(* A push frame.  env says what JSON.parse(event.data) gives: "throw", the *)
(* value "null", or an envelope "msg" with its type, step ("" when absent  *)
(* or null) and data.                                                      *)
(***************************************************************************)
Frame(env, type, step, data) ==
    [env |-> env, type |-> type, step |-> step, data |-> data]

NoFrame == Frame("none", "", "", JUndefined)

\* The frames a session is sent.
FrameSteps == {""} \cup {StepLabels[i] : i \in 1..MaxSteps} \cup {"sub"}

SessionFrames ==
    {Frame("throw", "", "", JUndefined)}
    \cup {Frame("msg", "step_check", st, d) :
            st \in FrameSteps,
            d \in {JObject("true", TRUE), JObject("false", TRUE),
                   JString(<< "WORD" >>)}}
    \cup {Frame("msg", "speech", "", d) :
            d \in {JString(<< "WORD" >>), JString(<< "WS", "OBJ_T" >>), JNumber}}

\* Every frame with a payload string of at most MaxTokens tokens.
Strings == UNION {[1..k -> Tokens] : k \in 0..MaxTokens}

Payloads ==
    {JString(s) : s \in Strings}
    \cup {JObject("true", TRUE), JObject("false", TRUE), JObject("none", FALSE),
          JArray, JNumber, JNull, JUndefined}

AllFrames ==
    {Frame("throw", "", "", JUndefined), Frame("null", "", "", JUndefined),
     Frame("msg", "other", "", JUndefined)}
    \cup {Frame("msg", "step_check", st, d) : st \in FrameSteps, d \in Payloads}
    \cup {Frame("msg", "speech", "", d) : d \in Payloads}

\* ---------------------------------------------------------- continuations

(***************************************************************************)
(* A pending continuation: k names the await it is at, o the handler that  *)
(* called startCooking ("hs" handleStart, "ac" handleAllergenContinue),    *)
(* idx and lab the nextIdx and steps[nextIdx] of handleNext's closure (lab *)
(* is also the step of announceStep), st the stepsToUse of startCooking,   *)
(* ann the isStepAnnouncement of speak, av the avoid list sent to          *)
(* /recipe/generate-safe.                                                  *)
(***************************************************************************)
TaskWith(k, o, idx, lab, st, ann, av) ==
    [k |-> k, o |-> o, idx |-> idx, lab |-> lab, st |-> st, ann |-> ann, av |-> av]

Task(k, o, idx, lab, st, ann) == TaskWith(k, o, idx, lab, st, ann, {})

GenTask         == Task("generate", "hs", 0, "", << >>, FALSE)
SafeTask(st, av) == TaskWith("generate-safe", "ac", 0, "", st, FALSE, av)
CameraTask(o, st)  == Task("camera/start", o, 0, "", st, FALSE)
FirstStepTask(o, st) == Task("set-step/first", o, 0, "", st, FALSE)
SetStepTask(idx, lab) == Task("set-step", "", idx, lab, << >>, FALSE)
CommitTask(idx, lab)  == Task("commit", "", idx, lab, << >>, FALSE)
FinishTask      == Task("camera/stop/finish", "", 0, "", << >>, FALSE)
EndTask         == Task("camera/stop/end", "", 0, "", << >>, FALSE)
DetailsTask(lab) == Task("step/details", "", 0, lab, << >>, FALSE)
TtsTask(ann) == Task("tts", "", 0, "", << >>, ann)

Pending(k) == {t \in BagToSet(tasks) : t.k = k}

With(t)    == tasks (+) SetToBag({t})
Without(t) == tasks (-) SetToBag({t})
Swap(t, u) == (tasks (-) SetToBag({t})) (+) SetToBag({u})

\* ------------------------------------------------------------------ audio

\* A clip: whether it plays, and while it does whether it is a step
\* announcement.
Clip(ann, playing) == [has |-> TRUE, ann |-> ann, playing |-> playing]
NoClip == [has |-> FALSE, ann |-> FALSE, playing |-> FALSE]

PlayingClips ==
    (IF audioRef.playing THEN 1 ELSE 0) + orphanClips[TRUE] + orphanClips[FALSE]

\* Room for one more continuation.
Room == BagCardinality(tasks) + PlayingClips < MaxPending

NoData == [has |-> FALSE, completed |-> "none", step |-> ""]

\* The record of the handler that ran last; a fetch whose status the code
\* never reads is recorded as "ok" or "failed".
Last(op, res) == [op |-> op, res |-> res]
Settled(r) == IF r = "ok" THEN "ok" ELSE "failed"

\* ------------------------------------------------------------------- Init

Init ==
    /\ phase = "prompt"
    /\ steps = << >>
    /\ currentStep = 0
    /\ displayStep = 0
    /\ done = FALSE
    /\ animating = FALSE
    /\ stepCompleted = FALSE
    /\ stepCheckData = NoData
    /\ remySpeech = << >>
    /\ apiError = ""
    /\ detectedAllergens = {}
    /\ selectedAllergens = {}
    /\ showCompletionOverlay = FALSE
    /\ eventSourceRef = "null"
    /\ orphanConns = 0
    /\ currentStepLabelRef = ""
    /\ audioRef = NoClip
    /\ orphanClips = [b \in BOOLEAN |-> 0]
    /\ stepSpeakingRef = FALSE
    /\ autoTimer = FALSE
    /\ tasks = EmptyBag
    /\ cameraHeld = FALSE
    /\ recipes = 0
    /\ inbox = NoFrame
    /\ mounted = TRUE
    /\ confirmedStep = -1
    /\ last = Last("init", "")

\* ------------------------------------------------------- effects and refs

(***************************************************************************)
(* The effects React runs after the render that follows a handler: the     *)
(* label ref follows steps and currentStep; when stepCompleted has become  *)
(* true the overlay is shown and the 1500 ms timer set, when it has become *)
(* false the effect's cleanup clears the timer.  ov and at are the overlay *)
(* and the timer as the handler left them.  After the unmount the state    *)
(* variables hold what the setters were last called with, which React      *)
(* discards.                                                               *)
(***************************************************************************)
\* The label reference is never refreshed.
LabelRefEffect_NoSync ==
    currentStepLabelRef' = currentStepLabelRef

LabelRefEffect ==
    currentStepLabelRef' = LabelAt(steps', currentStep')

AutoAdvanceEffect(ov, at) ==
    IF ~stepCompleted /\ stepCompleted'
        THEN showCompletionOverlay' = TRUE /\ autoTimer' = TRUE
        ELSE IF stepCompleted /\ ~stepCompleted'
            THEN showCompletionOverlay' = ov /\ autoTimer' = FALSE
            ELSE showCompletionOverlay' = ov /\ autoTimer' = at

\* No effect runs once the page is unmounted.
RenderEffects(ov, at) ==
    IF mounted'
        THEN LabelRefEffect /\ AutoAdvanceEffect(ov, at)
        ELSE /\ currentStepLabelRef' = currentStepLabelRef
             /\ showCompletionOverlay' = ov
             /\ autoTimer' = at

\* A render after a handler that touched neither the overlay nor the timer.
Render == RenderEffects(showCompletionOverlay, autoTimer)

\* The connection held is left as it is.
CloseSSE_Keep == eventSourceRef

\* eventSourceRef.current?.close()
CloseSSE == IF eventSourceRef = "open" THEN "closed" ELSE eventSourceRef

\* connectSSE without its close(): the connection held stays open.
ConnectSSE_NoClose ==
    /\ eventSourceRef' = "open"
    /\ orphanConns' = orphanConns + (IF eventSourceRef = "open" THEN 1 ELSE 0)

\* connectSSE: close the connection held, open a new one and hold it.
ConnectSSE ==
    /\ eventSourceRef' = "open"
    /\ orphanConns' = orphanConns

OpenConns == orphanConns + (IF eventSourceRef = "open" THEN 1 ELSE 0)

\* speak, up to its await of /tts: the clip held is paused and dropped, the
\* step-speaking flag raised for an announcement, the request issued on top
\* of the continuations `base`.
Speak(ann, base) ==
    /\ audioRef' = NoClip
    /\ stepSpeakingRef' = (IF ann THEN TRUE ELSE stepSpeakingRef)
    /\ tasks' = base (+) SetToBag({TtsTask(ann)})

\* ---------------------------------------------------------------- actions

\* The history kept with every handler: a step_check frame for the label of
\* the current step, saying completed: true, has been applied; it is
\* forgotten when the current step or the recipe changes.
Track ==
    confirmedStep' =
        IF currentStep' # currentStep \/ steps' # steps THEN -1
        ELSE IF /\ last'.op = "frame"
                /\ last'.res = "applied"
                /\ stepCheckData'.completed = "true"
                /\ stepCheckData'.step = LabelAt(steps, currentStep)
            THEN currentStep
            ELSE confirmedStep

stepVars   == << currentStep, displayStep, stepCompleted, stepCheckData, remySpeech >>
allergVars == << detectedAllergens, selectedAllergens >>
connVars   == << eventSourceRef, orphanConns >>
audioVars  == << audioRef, orphanClips, stepSpeakingRef >>

\* A catch that shows no error.
StartFailed_Silent(t, msg) ==
    /\ apiError' = apiError
    /\ phase' = "prompt"
    /\ tasks' = Without(t)

\* The catch of handleStart: the error is shown and the prompt screen is back.
StartFailed(t, msg) ==
    /\ apiError' = msg
    /\ phase' = "prompt"
    /\ tasks' = Without(t)

\* handleStart, up to its await of Promise.all (the Start button and the
\* Enter key of the prompt screen, with a valid input).
HandleStart ==
    /\ mounted
    /\ phase = "prompt"
    /\ recipes < MaxRecipes
    /\ Room
    /\ apiError' = ""
    /\ phase' = "loading"
    /\ tasks' = With(GenTask)
    /\ last' = Last("handleStart", "")
    /\ UNCHANGED << steps, stepVars, done, animating, allergVars, connVars,
                    audioVars, cameraHeld, inbox, mounted, recipes >>
    /\ Render
    /\ Track

\* handleStart, from Promise.all to the allergen screen or to startCooking's
\* await of /camera/start.  g and a are the outcomes of /recipe/generate and
\* /recipe/allergens, n the length of the recipe, al the allergens found.
GenerateDone(t, g, a, n, al) ==
    /\ t \in Pending("generate")
    /\ IF g = "err" \/ a = "err"
         THEN /\ StartFailed(t, "Failed to fetch")
              /\ last' = Last("generate",
                              IF g = "ok" THEN "scan rejected" ELSE "rejected")
              /\ UNCHANGED << steps, allergVars >>
         ELSE IF g = "bad"
         THEN /\ StartFailed(t, "Recipe generation failed")
              /\ last' = Last("generate", "not ok")
              /\ UNCHANGED << steps, allergVars >>
         ELSE /\ steps' = Recipe(n)
              /\ apiError' = apiError
              /\ IF a = "ok" /\ al # {}
                   THEN /\ detectedAllergens' = al
                        /\ selectedAllergens' = {}
                        /\ phase' = "allergens"
                        /\ tasks' = Without(t)
                        /\ last' = Last("generate", "allergens")
                   ELSE /\ tasks' = Swap(t, CameraTask("hs", Recipe(n)))
                        /\ phase' = phase
                        /\ last' = Last("generate", IF a = "ok" THEN "none found" ELSE "scan failed")
                        /\ UNCHANGED allergVars
    /\ recipes' = (IF g = "ok" /\ a # "err" THEN recipes + 1 ELSE recipes)
    /\ UNCHANGED << stepVars, done, animating, connVars, audioVars, cameraHeld, inbox, mounted >>
    /\ Render
    /\ Track

\* A fetch of startCooking rejected: handleStart catches it, in
\* handleAllergenContinue nothing does.
StartCookingThrew(t) ==
    IF t.o = "hs"
        THEN StartFailed(t, "Failed to fetch")
        ELSE /\ tasks' = Without(t)
             /\ UNCHANGED << apiError, phase >>

\* startCooking, from /camera/start to its await of /recipe/set-step.
CameraStartDone(t, r) ==
    /\ t \in Pending("camera/start")
    /\ IF r = "err"
         THEN StartCookingThrew(t) /\ cameraHeld' = cameraHeld
         ELSE /\ tasks' = Swap(t, FirstStepTask(t.o, t.st))
              /\ cameraHeld' = (IF r = "ok" THEN TRUE ELSE cameraHeld)
              /\ UNCHANGED << apiError, phase >>
    /\ last' = Last("camera/start", r)
    /\ UNCHANGED << steps, stepVars, done, animating, allergVars, connVars,
                    audioVars, inbox, mounted, recipes >>
    /\ Render
    /\ Track

\* startCooking from /recipe/set-step to its end, and what handleStart does
\* once it returns: announceStep, up to its await of /step/details.
StartCookingDone(t, r) ==
    /\ t \in Pending("set-step/first")
    /\ IF r = "err"
         THEN /\ StartCookingThrew(t)
              /\ UNCHANGED << stepVars, connVars >>
         ELSE /\ ConnectSSE
              /\ currentStep' = 0
              /\ displayStep' = 0
              /\ stepCompleted' = FALSE
              /\ stepCheckData' = NoData
              /\ remySpeech' = << >>
              /\ phase' = "coaching"
              /\ apiError' = apiError
              /\ tasks' = IF t.o = "hs"
                            THEN Swap(t, DetailsTask(LabelAt(t.st, 0)))
                            ELSE Without(t)
    /\ last' = Last("startCooking",
                    IF r = "err" THEN "err"
                    ELSE IF eventSourceRef = "open" THEN "reconnected"
                    ELSE "connected")
    /\ UNCHANGED << steps, done, animating, allergVars, audioVars, cameraHeld, inbox, mounted, recipes >>
    /\ Render
    /\ Track

\* A card of the allergen screen is clicked.
ToggleAllergen(a) ==
    /\ mounted
    /\ phase = "allergens"
    /\ a \in detectedAllergens
    /\ selectedAllergens' = IF a \in selectedAllergens
                              THEN selectedAllergens \ {a}
                              ELSE selectedAllergens \cup {a}
    /\ last' = Last("toggle", a)
    /\ UNCHANGED << phase, steps, stepVars, done, animating, apiError,
                    detectedAllergens, connVars, audioVars, tasks, cameraHeld, inbox, mounted, recipes >>
    /\ Render
    /\ Track

\* handleAllergenContinue, up to its await of /recipe/generate-safe or of
\* startCooking's /camera/start (either button of the allergen screen).
HandleAllergenContinue ==
    /\ mounted
    /\ phase = "allergens"
    /\ Room
    /\ IF selectedAllergens # {}
         THEN /\ phase' = "loading"
              /\ tasks' = With(SafeTask(steps, selectedAllergens))
         ELSE /\ phase' = phase
              /\ tasks' = With(CameraTask("ac", steps))
    /\ last' = Last("handleAllergenContinue", IF selectedAllergens # {} THEN "adapt" ELSE "keep")
    /\ UNCHANGED << steps, stepVars, done, animating, apiError, allergVars,
                    connVars, audioVars, cameraHeld, inbox, mounted, recipes >>
    /\ Render
    /\ Track

\* handleAllergenContinue, from /recipe/generate-safe to startCooking's await
\* of /camera/start.
GenerateSafeDone(t, r, n) ==
    /\ t \in Pending("generate-safe")
    /\ IF r = "ok"
         THEN /\ steps' = SafeRecipe(n)
              /\ tasks' = Swap(t, CameraTask("ac", SafeRecipe(n)))
         ELSE /\ steps' = steps
              /\ tasks' = Swap(t, CameraTask("ac", t.st))
    /\ last' = Last("generate-safe", r)
    /\ UNCHANGED << phase, stepVars, done, animating, apiError, allergVars,
                    connVars, audioVars, cameraHeld, inbox, mounted, recipes >>
    /\ Render
    /\ Track

\* A reset that leaves the recipe in place.
ResetSession_KeepSteps ==
    /\ currentStep' = 0
    /\ displayStep' = 0
    /\ done' = FALSE
    /\ steps' = steps
    /\ remySpeech' = << >>
    /\ stepCompleted' = FALSE
    /\ stepCheckData' = NoData
    /\ detectedAllergens' = {}
    /\ selectedAllergens' = {}
    /\ phase' = "prompt"

\* The session reset of handleEndRecipe and of "Cook something else".
ResetSession ==
    /\ currentStep' = 0
    /\ displayStep' = 0
    /\ done' = FALSE
    /\ steps' = << >>
    /\ remySpeech' = << >>
    /\ stepCompleted' = FALSE
    /\ stepCheckData' = NoData
    /\ detectedAllergens' = {}
    /\ selectedAllergens' = {}
    /\ phase' = "prompt"

\* handleNext without setAnimating(true).
Advance_NoFlag ==
    IF currentStep + 1 >= Len(steps)
        THEN /\ eventSourceRef' = CloseSSE
             /\ cameraHeld' = FALSE
             /\ tasks' = With(FinishTask)
             /\ UNCHANGED << animating, stepCompleted, stepCheckData >>
        ELSE /\ animating' = animating
             /\ stepCompleted' = FALSE
             /\ stepCheckData' = NoData
             /\ tasks' = With(SetStepTask(currentStep + 1, LabelAt(steps, currentStep + 1)))
             /\ UNCHANGED << eventSourceRef, cameraHeld >>

\* handleNext past its animating guard, up to its await: of /camera/stop on
\* the last step, of /recipe/set-step otherwise.
Advance ==
    IF currentStep + 1 >= Len(steps)
        THEN /\ eventSourceRef' = CloseSSE
             /\ cameraHeld' = FALSE
             /\ tasks' = With(FinishTask)
             /\ UNCHANGED << animating, stepCompleted, stepCheckData >>
        ELSE /\ animating' = TRUE
             /\ stepCompleted' = FALSE
             /\ stepCheckData' = NoData
             /\ tasks' = With(SetStepTask(currentStep + 1, LabelAt(steps, currentStep + 1)))
             /\ UNCHANGED << eventSourceRef, cameraHeld >>

\* handleNext from the Next / Finish button (disabled while animating).
HandleNext ==
    /\ mounted
    /\ phase = "coaching"
    /\ ~done
    /\ ~animating
    /\ Room
    /\ Advance
    /\ last' = Last("handleNext", IF currentStep + 1 >= Len(steps) THEN "finish" ELSE "advance")
    /\ UNCHANGED << phase, steps, currentStep, displayStep, done, remySpeech,
                    apiError, allergVars, orphanConns, audioVars, inbox, mounted, recipes >>
    /\ RenderEffects(FALSE, autoTimer)
    /\ Track

\* The 1500 ms timer of the auto-advance effect fires: the overlay is hidden
\* and handleNextRef.current(), the latest handleNext, is called.
AutoAdvance ==
    /\ autoTimer
    /\ IF animating
         THEN /\ UNCHANGED << animating, stepCompleted, stepCheckData, tasks,
                              eventSourceRef, cameraHeld >>
              /\ last' = Last("autoAdvance", "animating")
         ELSE /\ Room
              /\ Advance
              /\ last' = Last("autoAdvance", IF currentStep + 1 >= Len(steps) THEN "finish" ELSE "advance")
    /\ UNCHANGED << phase, steps, currentStep, displayStep, done, remySpeech,
                    apiError, allergVars, orphanConns, audioVars, inbox, mounted, recipes >>
    /\ RenderEffects(FALSE, FALSE)
    /\ Track

\* handleNext, from /recipe/set-step (whatever its outcome) to the 400 ms
\* timer.
SetStepDone(t, r) ==
    /\ t \in Pending("set-step")
    /\ currentStep' = t.idx
    /\ tasks' = Swap(t, CommitTask(t.idx, t.lab))
    /\ last' = Last("set-step", Settled(r))
    /\ UNCHANGED << phase, steps, displayStep, done, animating, stepCompleted,
                    stepCheckData, remySpeech, apiError, allergVars, connVars,
                    audioVars, cameraHeld, inbox, mounted, recipes >>
    /\ Render
    /\ Track

\* The 400 ms timer of handleNext fires: the step is displayed and
\* announceStep runs up to its await of /step/details.
CommitStep(t) ==
    /\ t \in Pending("commit")
    /\ displayStep' = t.idx
    /\ animating' = FALSE
    /\ tasks' = Swap(t, DetailsTask(t.lab))
    /\ last' = Last("commit", t.lab)
    /\ UNCHANGED << phase, steps, currentStep, done, stepCompleted,
                    stepCheckData, remySpeech, apiError, allergVars, connVars,
                    audioVars, cameraHeld, inbox, mounted, recipes >>
    /\ Render
    /\ Track

\* handleNext on the last step, after /camera/stop (whatever its outcome).
FinishDone(t, r) ==
    /\ t \in Pending("camera/stop/finish")
    /\ done' = TRUE
    /\ tasks' = Without(t)
    /\ last' = Last("finish", Settled(r))
    /\ UNCHANGED << phase, steps, stepVars, animating, apiError, allergVars,
                    connVars, audioVars, cameraHeld, inbox, mounted, recipes >>
    /\ Render
    /\ Track

\* handleEndRecipe, up to its await of /camera/stop.
HandleEndRecipe ==
    /\ mounted
    /\ phase = "coaching"
    /\ ~done
    /\ Room
    /\ eventSourceRef' = CloseSSE
    /\ audioRef' = NoClip
    /\ cameraHeld' = FALSE
    /\ tasks' = With(EndTask)
    /\ last' = Last("handleEndRecipe", "")
    /\ UNCHANGED << phase, steps, stepVars, done, animating, apiError,
                    allergVars, orphanConns, orphanClips, stepSpeakingRef, inbox, mounted, recipes >>
    /\ RenderEffects(FALSE, autoTimer)
    /\ Track

\* handleEndRecipe after /camera/stop (whatever its outcome).
EndRecipeDone(t, r) ==
    /\ t \in Pending("camera/stop/end")
    /\ ResetSession
    /\ tasks' = Without(t)
    /\ last' = Last("endRecipe", Settled(r))
    /\ UNCHANGED << animating, apiError, connVars, audioVars, cameraHeld, inbox, mounted, recipes >>
    /\ Render
    /\ Track

\* The "Cook something else" button of the completion screen.
CookSomethingElse ==
    /\ mounted
    /\ phase = "coaching"
    /\ done
    /\ eventSourceRef' = CloseSSE
    /\ ResetSession
    /\ last' = Last("cookSomethingElse", "")
    /\ UNCHANGED << animating, apiError, orphanConns, audioVars, tasks,
                    cameraHeld, inbox, mounted, recipes >>
    /\ Render
    /\ Track

\* The page is unmounted: the cleanup of the mount effect closes the
\* connection held and pauses the clip held, the cleanup of the auto-advance
\* effect clears its timer.  Pending continuations still run.
Unmount ==
    /\ mounted
    /\ mounted' = FALSE
    /\ eventSourceRef' = CloseSSE
    /\ audioRef' = NoClip
    /\ last' = Last("unmount", "")
    /\ UNCHANGED << phase, steps, stepVars, done, animating, apiError,
                    allergVars, orphanConns, orphanClips, stepSpeakingRef,
                    tasks, cameraHeld, inbox, recipes >>
    /\ RenderEffects(showCompletionOverlay, FALSE)
    /\ Track

\* announceStep, from /step/details to speak's await of /tts.  det: the
\* response carried details (a failed fetch gives none).
DetailsDone(t, det) ==
    /\ t \in Pending("step/details")
    /\ Speak(TRUE, Without(t))
    /\ last' = Last("announceStep", t.lab)
    /\ UNCHANGED << phase, steps, stepVars, done, animating, apiError,
                    allergVars, connVars, orphanClips, cameraHeld, inbox, mounted, recipes >>
    /\ Render
    /\ Track

\* The clip audioRef holds goes on playing when the ref is overwritten.
Orphaned ==
    IF audioRef.playing
        THEN [orphanClips EXCEPT ![audioRef.ann] = @ + 1]
        ELSE orphanClips

\* speak, from /tts to its end.  r: "ok" (the clip plays), "play rejected"
\* (audio.play() rejects and cleanup runs), "bad" (non-success status),
\* "err" (the fetch or res.blob() throws).
TtsOutcomes == {"ok", "play rejected", "bad", "err"}

\* speak whose catch leaves the step-speaking flag as it is.
TtsDone_KeepFlag(t, r) ==
    /\ t \in Pending("tts")
    /\ tasks' = Without(t)
    /\ CASE r = "ok" ->
              /\ audioRef' = Clip(t.ann, TRUE)
              /\ orphanClips' = Orphaned
              /\ stepSpeakingRef' = stepSpeakingRef
         [] r = "play rejected" ->
              /\ audioRef' = Clip(FALSE, FALSE)
              /\ orphanClips' = Orphaned
              /\ stepSpeakingRef' = FALSE
         [] r = "bad" ->
              /\ stepSpeakingRef' = (IF t.ann THEN FALSE ELSE stepSpeakingRef)
              /\ UNCHANGED << audioRef, orphanClips >>
         [] r = "err" ->
              /\ stepSpeakingRef' = stepSpeakingRef
              /\ UNCHANGED << audioRef, orphanClips >>
    /\ last' = Last("tts", r)
    /\ UNCHANGED << phase, steps, stepVars, done, animating, apiError,
                    allergVars, connVars, cameraHeld, inbox, mounted, recipes >>
    /\ Render
    /\ Track

TtsDone(t, r) ==
    /\ t \in Pending("tts")
    /\ tasks' = Without(t)
    /\ CASE r = "ok" ->
              /\ audioRef' = Clip(t.ann, TRUE)
              /\ orphanClips' = Orphaned
              /\ stepSpeakingRef' = stepSpeakingRef
         [] r = "play rejected" ->
              /\ audioRef' = Clip(FALSE, FALSE)
              /\ orphanClips' = Orphaned
              /\ stepSpeakingRef' = FALSE
         [] r = "bad" ->
              /\ stepSpeakingRef' = (IF t.ann THEN FALSE ELSE stepSpeakingRef)
              /\ UNCHANGED << audioRef, orphanClips >>
         [] r = "err" ->
              /\ stepSpeakingRef' = FALSE
              /\ UNCHANGED << audioRef, orphanClips >>
    /\ last' = Last("tts", r)
    /\ UNCHANGED << phase, steps, stepVars, done, animating, apiError,
                    allergVars, connVars, cameraHeld, inbox, mounted, recipes >>
    /\ Render
    /\ Track

\* A playing clip ends or errors (onended, onerror): cleanup runs.  held:
\* the clip is the one audioRef holds; ann: the kind of an orphaned clip.
AudioEnds(held, ann) ==
    /\ IF held
         THEN /\ audioRef.playing
              /\ audioRef' = Clip(FALSE, FALSE)
              /\ orphanClips' = orphanClips
         ELSE /\ orphanClips[ann] > 0
              /\ orphanClips' = [orphanClips EXCEPT ![ann] = @ - 1]
              /\ audioRef' = audioRef
    /\ stepSpeakingRef' = FALSE
    /\ last' = Last("audioEnds", IF held THEN "held" ELSE "orphan")
    /\ UNCHANGED << phase, steps, stepVars, done, animating, apiError,
                    allergVars, connVars, tasks, cameraHeld, inbox, mounted, recipes >>
    /\ Render
    /\ Track

\* ------------------------------------------------------------- onmessage

\* The staleness check of the step_check branch:
\* !msg.step || msg.step !== currentStepLabelRef.current
Stale(f) == f.step = "" \/ f.step # currentStepLabelRef

\* What onmessage does with a frame: "malformed" (something threw and the
\* outer catch swallowed it), "ignored" (an unknown type), "stale",
\* "bad payload", "applied" for a step_check frame, and "json", "shown"
\* (stored but not spoken), "spoken" for a speech frame.
Verdict(f) ==
    CASE f.env # "msg" -> "malformed"
      [] f.env = "msg" /\ f.type = "step_check" ->
            IF Stale(f) THEN "stale"
            ELSE IF IsObject(DecodeStepCheck(f.data)) THEN "applied"
            ELSE "bad payload"
      [] f.env = "msg" /\ f.type = "speech" ->
            IF f.data.t # "string" THEN "malformed"
            ELSE IF LooksLikeJson(Trim(f.data.s)) THEN "json"
            ELSE IF HasStepCheckKeys(Trim(f.data.s)) THEN "json"
            ELSE IF stepSpeakingRef THEN "shown"
            ELSE "spoken"
      [] OTHER -> "ignored"

\* setStepCompleted(data.completed === true)
CompletedAfter_Assign(d) == d.c = "true"

\* setStepCompleted(true) only when the payload says completed: true.
CompletedAfter(d) == IF d.c = "true" THEN TRUE ELSE stepCompleted

OnMessage(f) ==
    LET v == Verdict(f)
        d == DecodeStepCheck(f.data)
    IN  /\ IF v = "applied"
             THEN /\ stepCheckData' = [has |-> TRUE, completed |-> d.c, step |-> f.step]
                  /\ stepCompleted' = CompletedAfter(d)
             ELSE UNCHANGED << stepCheckData, stepCompleted >>
        /\ IF v \in {"shown", "spoken"}
             THEN remySpeech' = Trim(f.data.s)
             ELSE remySpeech' = remySpeech
        /\ IF v = "spoken"
             THEN Room /\ Speak(FALSE, tasks)
             ELSE UNCHANGED << audioRef, stepSpeakingRef, tasks >>
        /\ UNCHANGED << phase, steps, currentStep, displayStep, done, animating,
                        apiError, allergVars, connVars, orphanClips, cameraHeld,
                        recipes, mounted >>
        /\ Render

\* A frame arrives on an open connection.  A frame that is discarded leaves
\* no trace.
Receive(f) ==
    /\ OpenConns > 0
    /\ OnMessage(f)
    /\ last' = (IF Verdict(f) \in {"applied", "shown", "spoken"}
                  THEN Last("frame", Verdict(f))
                  ELSE last)
    /\ inbox' = inbox
    /\ Track

\* ------------------------------------------------------------------- Next

Next ==
    \/ HandleStart
    \/ \E t \in BagToSet(tasks), g \in FetchOutcomes, a \in FetchOutcomes,
          n \in RecipeSizes, al \in SUBSET Allergens : GenerateDone(t, g, a, n, al)
    \/ \E t \in BagToSet(tasks), r \in FetchOutcomes : CameraStartDone(t, r)
    \/ \E t \in BagToSet(tasks), r \in FetchOutcomes : StartCookingDone(t, r)
    \/ \E a \in Allergens : ToggleAllergen(a)
    \/ HandleAllergenContinue
    \/ \E t \in BagToSet(tasks), r \in FetchOutcomes, n \in RecipeSizes :
          GenerateSafeDone(t, r, n)
    \/ HandleNext
    \/ AutoAdvance
    \/ \E t \in BagToSet(tasks), r \in FetchOutcomes : SetStepDone(t, r)
    \/ \E t \in BagToSet(tasks) : CommitStep(t)
    \/ \E t \in BagToSet(tasks), r \in FetchOutcomes : FinishDone(t, r)
    \/ HandleEndRecipe
    \/ \E t \in BagToSet(tasks), r \in FetchOutcomes : EndRecipeDone(t, r)
    \/ CookSomethingElse
    \/ Unmount
    \/ \E t \in BagToSet(tasks), det \in BOOLEAN : DetailsDone(t, det)
    \/ \E t \in BagToSet(tasks), r \in TtsOutcomes : TtsDone(t, r)
    \/ \E held \in BOOLEAN, ann \in BOOLEAN : AudioEnds(held, ann)
    \/ \E f \in SessionFrames : Receive(f)

Spec == Init /\ [][Next]_vars

\* --------------------------------------------------------------- fairness

(***************************************************************************)
(* Every request eventually resolves or fails, every timer that is set     *)
(* fires, and a clip that plays comes to its end.  Nothing is assumed of   *)
(* the user or of the frames the server sends.                             *)
(***************************************************************************)
Fairness ==
    /\ WF_vars(\E t \in BagToSet(tasks), g \in FetchOutcomes, a \in FetchOutcomes,
                  n \in RecipeSizes, al \in SUBSET Allergens :
                    GenerateDone(t, g, a, n, al))
    /\ WF_vars(\E t \in BagToSet(tasks), r \in FetchOutcomes : CameraStartDone(t, r))
    /\ WF_vars(\E t \in BagToSet(tasks), r \in FetchOutcomes : StartCookingDone(t, r))
    /\ WF_vars(\E t \in BagToSet(tasks), r \in FetchOutcomes, n \in RecipeSizes :
                    GenerateSafeDone(t, r, n))
    /\ WF_vars(\E t \in BagToSet(tasks), r \in FetchOutcomes : SetStepDone(t, r))
    /\ WF_vars(\E t \in BagToSet(tasks) : CommitStep(t))
    /\ WF_vars(\E t \in BagToSet(tasks), r \in FetchOutcomes : FinishDone(t, r))
    /\ WF_vars(\E t \in BagToSet(tasks), r \in FetchOutcomes : EndRecipeDone(t, r))
    /\ WF_vars(\E t \in BagToSet(tasks), det \in BOOLEAN : DetailsDone(t, det))
    /\ WF_vars(\E t \in BagToSet(tasks), r \in TtsOutcomes : TtsDone(t, r))
    /\ WF_vars(\E held \in BOOLEAN, ann \in BOOLEAN : AudioEnds(held, ann))
    /\ WF_vars(AutoAdvance)

SpecLive == Init /\ [][Next]_vars /\ Fairness

\* ------------------------------------------------------- frame decoding

(***************************************************************************)
(* The decoding of push frames, one frame a run: the session is the one    *)
(* handleStart leaves when no allergen was found (coaching, first step,    *)
(* announceStep awaiting /step/details), inbox is the frame the server     *)
(* sends, any frame of AllFrames, and the user advances through the recipe *)
(* while it arrives.                                                       *)
(***************************************************************************)
InitFrames ==
    /\ phase = "coaching"
    /\ steps = Recipe(MaxSteps)
    /\ currentStep = 0
    /\ displayStep = 0
    /\ done = FALSE
    /\ animating = FALSE
    /\ stepCompleted = FALSE
    /\ stepCheckData = NoData
    /\ remySpeech = << >>
    /\ apiError = ""
    /\ detectedAllergens = {}
    /\ selectedAllergens = {}
    /\ showCompletionOverlay = FALSE
    /\ eventSourceRef = "open"
    /\ orphanConns = 0
    /\ currentStepLabelRef = LabelAt(Recipe(MaxSteps), 0)
    /\ audioRef = NoClip
    /\ orphanClips = [b \in BOOLEAN |-> 0]
    /\ stepSpeakingRef = FALSE
    /\ autoTimer = FALSE
    /\ tasks = SetToBag({DetailsTask(LabelAt(Recipe(MaxSteps), 0))})
    /\ cameraHeld = TRUE
    /\ recipes = 1
    /\ inbox \in AllFrames
    /\ mounted = TRUE
    /\ confirmedStep = -1
    /\ last = Last("startCooking", "connected")

\* The frame arrives (the server may send it again).
Deliver ==
    /\ inbox # NoFrame
    /\ OpenConns > 0
    /\ OnMessage(inbox)
    /\ last' = Last("frame", Verdict(inbox))
    /\ inbox' = inbox
    /\ Track

NextFrames ==
    \/ Deliver
    \/ HandleNext
    \/ \E t \in BagToSet(tasks), r \in FetchOutcomes : SetStepDone(t, r)
    \/ \E t \in BagToSet(tasks) : CommitStep(t)
    \/ \E t \in BagToSet(tasks), det \in BOOLEAN : DetailsDone(t, det)

SpecFrames == InitFrames /\ [][NextFrames]_vars

\* ------------------------------------------------------------- properties

(***************************************************************************)
(* In both specifications every action but the arrival of a frame sets     *)
(* last to an operation other than "frame", so a step that changes the     *)
(* state and ends with last.op = "frame" is the arrival of a frame.        *)
(***************************************************************************)

\* C1: in every reachable state 0 <= displayStep <= currentStep <=
\* steps.length, pending timers and request completions included.
StepIndicesOrdered ==
    0 <= displayStep /\ displayStep <= currentStep /\ currentStep <= Len(steps)

\* C2: stepCheckData, when present, is the payload of a step_check frame for
\* the step at currentStep, also across an advance whose set-step request
\* is pending when frames arrive.
StepCheckDataIsCurrent ==
    stepCheckData.has => stepCheckData.step = LabelAt(steps, currentStep)

\* C3: a step_check frame whose step is absent or differs from
\* steps[currentStep] leaves stepCheckData and stepCompleted unchanged.
StaleStepCheckIgnored ==
    [][(/\ last'.op = "frame"
        /\ inbox.env = "msg"
        /\ inbox.type = "step_check"
        /\ (inbox.step = "" \/ inbox.step # LabelAt(steps, currentStep)))
       => UNCHANGED << stepCheckData, stepCompleted >>]_vars

\* A frame for the first step, saying it is completed, has arrived after the
\* session moved to the second step, and nothing was recorded.
StaleStepCheckArrived ==
    /\ last.op = "frame"
    /\ inbox.type = "step_check"
    /\ inbox.data = JObject("true", TRUE)
    /\ currentStep = 1
    /\ inbox.step = LabelAt(steps, 0)
    /\ inbox.step # LabelAt(steps, currentStep)
    /\ stepCheckData = NoData
    /\ ~stepCompleted

\* C4: at any time at most one audio clip is playing, overlapping speak
\* calls included.
OneClipAtATime == PlayingClips <= 1

\* C5: at every instant at most one push connection is open.
OneConnectionAtATime == OpenConns <= 1

\* connectSSE has run while the session held an open connection.
Reconnected ==
    /\ last = Last("startCooking", "reconnected")
    /\ eventSourceRef = "open"
    /\ OpenConns = 1

\* The announcement speak(text, true) last started is in progress: its /tts
\* request is pending or its clip is the one held and playing.
AnnouncementInProgress ==
    \/ TtsTask(TRUE) \in BagToSet(tasks)
    \/ audioRef.playing /\ audioRef.ann

\* C6: while a step announcement is in progress, an accepted speech frame
\* updates remySpeech but starts no playback.
SpeechWaitsForAnnouncement ==
    [][(/\ AnnouncementInProgress
        /\ last'.op = "frame"
        /\ last'.res \in {"shown", "spoken"})
       => (tasks' = tasks /\ audioRef' = audioRef)]_vars

\* C7: whenever displayStep changes, stepCompleted is false.
DisplayedStepStartsIncomplete ==
    [][displayStep' # displayStep => ~stepCompleted']_vars

\* C8: once stepCompleted is true it stays true until a step transition
\* (advance, session start or reset), whatever frames arrive.
StepCompletedMonotonic ==
    [][(stepCompleted /\ ~stepCompleted')
       => last'.op \in {"handleNext", "autoAdvance", "startCooking",
                        "endRecipe", "cookSomethingElse"}]_vars

\* A frame saying completed: false was applied to a completed step, which
\* is still completed.
CompletedSurvivesFalseFrame ==
    /\ last = Last("frame", "applied")
    /\ stepCheckData.has
    /\ stepCheckData.completed = "false"
    /\ stepCheckData.step = LabelAt(steps, currentStep)
    /\ stepCompleted

\* A frame whose envelope does not parse, a step_check frame whose string
\* payload does not decode to an object, a speech frame whose data is not a
\* string.
Malformed(f) ==
    \/ f.env # "msg"
    \/ /\ f.type = "step_check"
       /\ f.data.t = "string"
       /\ DecodeStepCheck(f.data).t \notin {"object", "array"}
    \/ /\ f.type = "speech"
       /\ f.data.t # "string"

\* C9: a malformed frame leaves every session field unchanged and starts no
\* playback.
MalformedFrameDiscarded ==
    [][(last'.op = "frame" /\ Malformed(inbox))
       => UNCHANGED << phase, steps, currentStep, displayStep, done, animating,
                       stepCompleted, stepCheckData, remySpeech, apiError,
                       detectedAllergens, selectedAllergens,
                       showCompletionOverlay, audioRef, orphanClips,
                       stepSpeakingRef, tasks >>]_vars

\* A step_check frame for the active step has arrived whose payload is a
\* string between fences that does not decode, and nothing was recorded.
MalformedPayloadArrived ==
    /\ last.op = "frame"
    /\ Malformed(inbox)
    /\ inbox.type = "step_check"
    /\ inbox.step = LabelAt(steps, currentStep)
    /\ inbox.data.t = "string"
    /\ StartsWithFence(inbox.data.s)
    /\ stepCheckData = NoData

\* The text of a speech frame starts with "{", "[" or a fence, or parses as
\* an object with a completed, state or action key.
JsonLooking(f) ==
    /\ f.env = "msg"
    /\ f.type = "speech"
    /\ f.data.t = "string"
    /\ LET text == Trim(f.data.s)
       IN  \/ StartsWithBrace(text)
           \/ StartsWithBracket(text)
           \/ StartsWithFence(text)
           \/ JsonParse(text).t = "object" /\ JsonParse(text).k

\* C10: a speech frame whose text looks like JSON is discarded: remySpeech
\* is unchanged and no playback is started.
JsonSpeechDiscarded ==
    [][(last'.op = "frame" /\ JsonLooking(inbox))
       => (remySpeech' = remySpeech /\ tasks' = tasks /\ audioRef' = audioRef)]_vars

\* A speech frame whose text, after leading whitespace, starts with "[" has
\* arrived while no announcement held playback back, and nothing was shown
\* or requested.
JsonSpeechArrived ==
    /\ last.op = "frame"
    /\ JsonLooking(inbox)
    /\ Head(inbox.data.s) = "WS"
    /\ StartsWithBracket(Trim(inbox.data.s))
    /\ ~stepSpeakingRef
    /\ remySpeech = << >>
    /\ Pending("tts") = {}

\* A teardown trigger runs: End Recipe is clicked, handleNext takes its
\* last-step path, the page is unmounted.
TeardownStep ==
    \/ last'.op \in {"handleEndRecipe", "unmount"}
    \/ last'.op \in {"handleNext", "autoAdvance"} /\ last'.res = "finish"

\* C11: on each teardown trigger (End Recipe, advancing past the final step,
\* unmount) the push connection is closed and any audio playback is stopped.
TeardownReleases ==
    [][TeardownStep =>
          /\ eventSourceRef' # "open"
          /\ orphanConns' = 0
          /\ ~audioRef'.playing
          /\ orphanClips' = [b \in BOOLEAN |-> 0]]_vars

\* C12: a failure of the allergen scan (network error or non-success
\* status) while generation succeeds is treated as no allergens found: the
\* phase does not return to prompt and no error is recorded.
ScanFailureIsNoAllergens ==
    [][(last'.op = "generate" /\ last'.res \in {"scan failed", "scan rejected"})
       => (phase' # "prompt" /\ apiError' = "")]_vars

\* The requests made after recipe generation has succeeded.
Downstream ==
    {"camera/start", "startCooking", "generate-safe", "announceStep", "tts",
     "set-step", "commit", "finish"}

\* C13: after recipe generation has succeeded, no failure of a later
\* request sets apiError or returns the phase to prompt.
DownstreamFailuresSilent ==
    [][last'.op \in Downstream
       => (apiError' = apiError /\ (phase' = "prompt" => phase = "prompt"))]_vars

\* C14: whenever stepCompleted becomes true during coaching the overlay is
\* shown and the timer set; the timer is given up only when the user advances
\* or the session ends; and when it fires the overlay is hidden and
\* handleNext performs the advance (unless one is already in flight).
AutoAdvanceCoupled ==
    [][/\ (~stepCompleted /\ stepCompleted' /\ phase' = "coaching" /\ mounted')
            => (showCompletionOverlay' /\ autoTimer')
       /\ (autoTimer /\ ~autoTimer')
            => last'.op \in {"autoAdvance", "handleNext", "endRecipe",
                             "cookSomethingElse", "unmount"}
       /\ (last'.op = "autoAdvance")
            => /\ ~showCompletionOverlay'
               /\ (last'.res \in {"advance", "finish"} \/ animating)]_vars

\* An advance has started and its delayed commit has not completed.
AdvanceInFlight == Pending("set-step") \cup Pending("commit") # {}

\* C15: an advance request (manual Next or the auto-advance timer) arriving
\* while an advance is in flight changes no index and issues no request.
SingleFlightAdvance ==
    [][(last'.op \in {"handleNext", "autoAdvance"} /\ AdvanceInFlight)
       => UNCHANGED << currentStep, displayStep, tasks >>]_vars

\* The auto-advance timer has fired while the set-step request of an advance
\* was pending, and nothing moved.
AdvanceRequestIgnored ==
    /\ last = Last("autoAdvance", "animating")
    /\ Pending("set-step") # {}
    /\ animating
    /\ currentStep = 0
    /\ displayStep = 0

\* C16: whenever a step becomes the active step (the first step when
\* coaching starts, with or without the allergen screen, and each step
\* reached by advancing) announceStep is called for its label.
StepAnnouncedOnActivation ==
    [][((last'.op = "startCooking" /\ last'.res # "err") \/ last'.op = "commit")
       => \E t \in BagToSet(tasks') :
             t.k = "step/details" /\ t.lab = LabelAt(steps', displayStep')]_vars

\* C17: End Recipe closes the push connection and requests /camera/stop, and
\* once that request has settled, also when it failed, the phase is prompt
\* and the session is reset.
EndRecipeResets ==
    [][/\ (last'.op = "handleEndRecipe")
            => /\ eventSourceRef' # "open"
               /\ orphanConns' = 0
               /\ EndTask \in BagToSet(tasks')
       /\ (last'.op = "endRecipe")
            => /\ phase' = "prompt"
               /\ currentStep' = 0
               /\ displayStep' = 0
               /\ steps' = << >>
               /\ ~stepCompleted'
               /\ stepCheckData' = NoData
               /\ remySpeech' = << >>
               /\ detectedAllergens' = {}
               /\ selectedAllergens' = {}
               /\ ~done']_vars

\* End Recipe has run to its end although its /camera/stop request failed.
EndRecipeDespiteFailure ==
    /\ last = Last("endRecipe", "failed")
    /\ phase = "prompt"
    /\ steps = << >>
    /\ eventSourceRef = "closed"
    /\ Pending("camera/stop/end") = {}

\* C18: when recipe generation succeeds the phase goes from loading to
\* allergens exactly when the scan reported an allergen; otherwise it goes
\* on to coaching, not back to prompt, and coaching starts on step 0 with
\* stepCompleted false and no stepCheckData.
GenerationRouted ==
    [][/\ (last'.op = "generate"
           /\ last'.res \in {"allergens", "none found", "scan failed", "scan rejected"})
            => /\ (phase' = "allergens") <=> (last'.res = "allergens")
               /\ phase' \in {"allergens", "loading", "coaching"}
       /\ (phase = "loading" /\ phase' = "coaching")
            => /\ currentStep' = 0
               /\ displayStep' = 0
               /\ ~stepCompleted'
               /\ stepCheckData' = NoData]_vars

\* C19: advancing on the last step closes the push connection, requests
\* /camera/stop and, once that request has settled, also when it failed,
\* sets done; currentStep and displayStep are unchanged.
FinalAdvanceFinishes ==
    [][/\ (last'.op \in {"handleNext", "autoAdvance"}
           /\ currentStep + 1 >= Len(steps) /\ ~animating)
            => /\ eventSourceRef' # "open"
               /\ orphanConns' = 0
               /\ FinishTask \in BagToSet(tasks')
               /\ UNCHANGED << currentStep, displayStep >>
       /\ (last'.op = "finish")
            => /\ done'
               /\ UNCHANGED << currentStep, displayStep >>]_vars

\* The last step of a recipe of several steps was advanced past, the
\* /camera/stop request failed, and the recipe is done.
FinishedDespiteFailure ==
    /\ last = Last("finish", "failed")
    /\ done
    /\ Len(steps) > 1
    /\ currentStep = Len(steps) - 1
    /\ displayStep = currentStep
    /\ eventSourceRef = "closed"

\* C20: on allergen confirm /recipe/generate-safe is requested, with the
\* selected allergens, exactly when one is selected; when it succeeds the
\* steps are replaced by the adapted ones, when it fails startCooking runs
\* with the original steps.
AllergenConfirmAdapts ==
    [][/\ (last'.op = "handleAllergenContinue")
            => IF selectedAllergens # {}
                 THEN /\ tasks' = With(SafeTask(steps, selectedAllergens))
                      /\ phase' = "loading"
                 ELSE tasks' = With(CameraTask("ac", steps))
       /\ (last'.op = "generate-safe")
            => IF last'.res = "ok"
                 THEN /\ steps' \in {SafeRecipe(n) : n \in RecipeSizes}
                      /\ CameraTask("ac", steps') \in BagToSet(tasks')
                 ELSE /\ steps' \in {Recipe(n) : n \in RecipeSizes}
                      /\ CameraTask("ac", steps') \in BagToSet(tasks')]_vars

\* C21: when the /recipe/generate request fails (rejected, or resolved with
\* a non-success status) the phase returns to prompt and apiError holds the
\* error; the next start clears apiError.
GenerationFailureReported ==
    [][/\ (last'.op = "generate" /\ last'.res \in {"rejected", "not ok"})
            => /\ phase' = "prompt"
               /\ apiError' \in {"Failed to fetch", "Recipe generation failed"}
       /\ (last'.op = "handleStart")
            => /\ apiError' = ""
               /\ phase' = "loading"]_vars

\* The generation request came back with a non-success status while the
\* loading screen was up: the prompt screen is back and shows the error.
GenerationFailureShown ==
    /\ last = Last("generate", "not ok")
    /\ phase = "prompt"
    /\ apiError = "Recipe generation failed"
    /\ Pending("generate") = {}
    /\ steps = << >>

\* C22: when the /tts request of speak is rejected or resolves with a
\* non-success status no playback starts, the step-speaking flag is false
\* afterwards, and remySpeech, the phase, the step indices and stepCompleted
\* are unchanged.
TtsFailureIsSilent ==
    [][(last'.op = "tts" /\ last'.res \in {"bad", "err"})
       => /\ audioRef' = audioRef
          /\ orphanClips' = orphanClips
          /\ ~stepSpeakingRef'
          /\ UNCHANGED << remySpeech, phase, currentStep, displayStep,
                          stepCompleted >>]_vars

\* C22 as the code has it: no playback starts and the session state is
\* unchanged; the step-speaking flag is false afterwards when the request
\* was rejected or was that of a step announcement, and is left as it is
\* when a speech request resolves with a non-success status.
TtsFailureClearsOwnFlag ==
    [][(last'.op = "tts" /\ last'.res \in {"bad", "err"})
       => /\ audioRef' = audioRef
          /\ orphanClips' = orphanClips
          /\ \E t \in Pending("tts") :
                /\ tasks' = Without(t)
                /\ stepSpeakingRef' = (IF last'.res = "bad" /\ ~t.ann
                                         THEN stepSpeakingRef
                                         ELSE FALSE)
          /\ UNCHANGED << remySpeech, phase, currentStep, displayStep,
                          stepCompleted >>]_vars

\* The /tts request of a speech frame came back with a non-success status
\* while the request of a step announcement is pending: the flag the
\* announcement raised is still up and nothing plays.
SpeechTtsFailedDuringAnnouncement ==
    /\ last = Last("tts", "bad")
    /\ stepSpeakingRef
    /\ TtsTask(TRUE) \in BagToSet(tasks)
    /\ Pending("tts") = {TtsTask(TRUE)}
    /\ ~audioRef.playing
    /\ remySpeech # << >>

\* C23: the completion timer advances past a step (to the next step, or on
\* the last step to the end of the recipe) only if a step_check frame for
\* that step's label saying completed: true was applied while the step was
\* the current one; a frame for the step before, applied while the advance
\* awaited its set-step request, does not count.
AutoAdvanceNeverSkips ==
    [][(last'.op = "autoAdvance" /\ last'.res \in {"advance", "finish"})
       => confirmedStep = currentStep]_vars

\* What an ended session may have left behind: the completion of a set-step,
\* step-details or /tts request, the 400 ms commit timer, the auto-advance
\* timer.
Leftovers == {"set-step", "commit", "autoAdvance", "announceStep", "tts"}

\* C24: once End Recipe has finished and the prompt screen is up, what the
\* ended session left behind changes neither currentStep, displayStep,
\* stepCompleted nor stepCheckData and starts no playback (stated for the
\* first thing to happen after End Recipe has finished).
NothingLeftOver ==
    [][(last.op = "endRecipe" /\ phase = "prompt" /\ last'.op \in Leftovers)
       => /\ UNCHANGED << currentStep, displayStep, stepCompleted, stepCheckData >>
          /\ audioRef'.playing => audioRef.playing
          /\ orphanClips' = orphanClips]_vars

\* The clip of a step announcement is playing, held by audioRef or not.
AnnouncementPlaying ==
    (audioRef.playing /\ audioRef.ann) \/ orphanClips[TRUE] > 0

\* A step announcement is in progress: a speak(text, true) request is
\* pending or the clip of one is playing.
AnnouncementActive ==
    TtsTask(TRUE) \in BagToSet(tasks) \/ AnnouncementPlaying

\* C25: whenever no step announcement is in progress the step-speaking flag
\* is false, and the flag is never cleared while the clip of an announcement
\* is still playing.
FlagFollowsAnnouncement ==
    [][/\ ~AnnouncementActive' => ~stepSpeakingRef'
       /\ (stepSpeakingRef /\ ~stepSpeakingRef') => ~AnnouncementPlaying']_vars

\* C26: provided every request eventually resolves or fails, the loading
\* phase is always eventually left, for allergens, coaching or prompt (as
\* long as the page stays mounted).
LoadingIsLeft ==
    (phase = "loading" /\ mounted)
        ~> (phase \in {"allergens", "coaching", "prompt"} \/ ~mounted)

\* C27: whenever the phase returns to prompt after a /camera/start request
\* succeeded, a /camera/stop request has been issued since.
CameraReleasedAtPrompt ==
    [][(phase # "prompt" /\ phase' = "prompt") => ~cameraHeld']_vars

\* C28: provided every request eventually resolves or fails, an advance
\* that has raised the single-flight guard eventually commits: the guard is
\* released, and while the session goes on it is released with displayStep
\* and currentStep both at the new index, currentStep having reached it no
\* later than displayStep.
AdvanceCommits ==
    /\ animating ~> ~animating
    /\ [][(last'.op = "commit" /\ phase' = "coaching")
            => /\ ~animating'
               /\ displayStep' = currentStep']_vars

\* A confirm of the allergen screen is being carried out: its
\* /recipe/generate-safe request or a request of its startCooking is pending.
StartingUp ==
    \E t \in BagToSet(tasks) :
        t.o = "ac" /\ t.k \in {"generate-safe", "camera/start", "set-step/first"}

\* C29: while the startCooking of a confirm is in progress a second confirm
\* issues no request, and startCooking does not reset the session once
\* coaching has begun.
StartCookingSingleFlight ==
    [][/\ (last'.op = "handleAllergenContinue" /\ StartingUp) => tasks' = tasks
       /\ (last'.op = "startCooking" /\ last'.res # "err") => phase # "coaching"]_vars

====
